---- MODULE Spec2Model ----
(***************************************************************************)
(* A model of siv.cpp, the simple integrity verifier: main, initialize,    *)
(* verify, createTsvString and hashFile, over a small file system.         *)
(* A std::string is a sequence of one-character strings, so that find,     *)
(* substr, getline and the tab splitting are computed as the code does.    *)
(***************************************************************************)
EXTENDS Integers, Sequences, FiniteSets, TLC

(* ------------------------------ bounds -------------------------------- *)

\* the largest number of entries below the monitored directory
MaxEntries == 2

(* ------------------------- std::string helpers ------------------------ *)

TAB == "\t"
NL == "\n"

\* the printable characters in ASCII order, codes 32..126 (the double quote, the backquote and
\* the backslash, which no string of the model holds, are spelled out)
Ascii == <<" ", "!", "dquote", "#", "$", "%", "&", "'", "(", ")", "*", "+", ",", "-", ".", "/", "0", "1", "2", "3", "4", "5", "6", "7", "8", "9", ":", ";", "<", "=", ">", "?", "@", "A", "B", "C", "D", "E", "F", "G", "H", "I", "J", "K", "L", "M", "N", "O", "P", "Q", "R", "S", "T", "U", "V", "W", "X", "Y", "Z", "[", "bslash", "]", "^", "_", "bquote", "a", "b", "c", "d", "e", "f", "g", "h", "i", "j", "k", "l", "m", "n", "o", "p", "q", "r", "s", "t", "u", "v", "w", "x", "y", "z", "{", "|", "}", "~">>

\* the value of each char as std::char_traits<char>::lt compares it
CodeOf ==
    [c \in {Ascii[i] : i \in 1..Len(Ascii)} \cup {TAB, NL} |->
        IF c = TAB THEN 9
        ELSE IF c = NL THEN 10
        ELSE 31 + (CHOOSE i \in 1..Len(Ascii) : Ascii[i] = c)]

Code(c) == CodeOf[c]

Min(a, b) == IF a < b THEN a ELSE b

\* std::string operator<, the order of the keys of a std::map<string, string>
StrLess(a, b) ==
    \E i \in 1..(Min(Len(a), Len(b)) + 1) :
        /\ \A j \in 1..(i - 1) : a[j] = b[j]
        /\ \/ i > Len(a) /\ i <= Len(b)
           \/ i <= Len(a) /\ i <= Len(b) /\ Code(a[i]) < Code(b[i])

\* string::npos
npos == -1

\* s.find(sub): the 0-based position of the first occurrence, or npos
Find(s, sub) ==
    LET hits == {p \in 0..(Len(s) - Len(sub)) :
                    \A j \in 1..Len(sub) : s[p + j] = sub[j]}
    IN  IF hits = {} THEN npos ELSE CHOOSE p \in hits : \A q \in hits : p <= q

\* s.substr(pos) for pos <= s.size(); the caller handles the out_of_range throw
SubstrFrom(s, pos) == SubSeq(s, pos + 1, Len(s))

\* s.substr(0, n); n = npos takes the whole string
SubstrTo(s, n) == IF n = npos THEN s ELSE SubSeq(s, 1, n)

\* remove(line.begin(), line.end(), c) followed by erase
EraseChar(s, c) == SelectSeq(s, LAMBDA x : x # c)

\* The char-by-char tab split of verify: temp collects the chars up to each
\* tab and is pushed at it, and once more after the last char; so the k-th
\* string is what lies between the (k-1)-th and the k-th tab.
SplitTab(s) ==
    LET tabs == {i \in 1..Len(s) : s[i] = TAB}
        n == Cardinality(tabs)
        \* the position of the k-th tab; 0 and Len(s) + 1 bound the string
        At(k) == IF k = 0 THEN 0
                 ELSE IF k > n THEN Len(s) + 1
                 ELSE CHOOSE i \in tabs : Cardinality({j \in tabs : j < i}) = k - 1
    IN  [k \in 1..(n + 1) |-> SubSeq(s, At(k - 1) + 1, At(k) - 1)]

Digit(n) == Ascii[17 + n]

\* std::to_string of a non-negative integer
RECURSIVE to_string(_)
to_string(n) == IF n < 10 THEN <<Digit(n)>> ELSE Append(to_string(n \div 10), Digit(n % 10))

\* oss << oct << n
RECURSIVE ToOct(_)
ToOct(n) == IF n < 8 THEN <<Digit(n)>> ELSE Append(ToOct(n \div 8), Digit(n % 8))

Two(n) == <<Digit(n \div 10), Digit(n % 10)>>

\* gmtime + strftime "%Y-%m-%d %H:%M:%S" of a time_t within the first day of the epoch
Strftime(tt) ==
    <<"1", "9", "7", "0", "-", "0", "1", "-", "0", "1", " ">> \o Two(tt \div 3600) \o <<":">>
        \o Two((tt % 3600) \div 60) \o <<":">> \o Two(tt % 60)

(* ------------------------------ std::map ------------------------------ *)

\* A std::map<string, string> is the sequence of its (key, value) pairs in
\* ascending key order, which is the order begin()..end() iterates in.

MapKeys(m) == {m[i].key : i \in 1..Len(m)}

\* m.find(k) != m.end()
MapHas(m, k) == k \in MapKeys(m)

\* m[k] for a key that is present
MapGet(m, k) == m[CHOOSE i \in 1..Len(m) : m[i].key = k].val

\* MapPut that keeps the order of insertion instead of the order of the keys
MapPutAppend(m, k, v) ==
    IF MapHas(m, k)
    THEN [i \in 1..Len(m) |-> IF m[i].key = k THEN [key |-> k, val |-> v] ELSE m[i]]
    ELSE Append(m, [key |-> k, val |-> v])

\* m[k] = v: overwrite the value of a present key, else insert in key order
MapPut(m, k, v) ==
    IF MapHas(m, k)
    THEN [i \in 1..Len(m) |-> IF m[i].key = k THEN [key |-> k, val |-> v] ELSE m[i]]
    ELSE LET n == Cardinality({i \in 1..Len(m) : StrLess(m[i].key, k)})
         IN  SubSeq(m, 1, n) \o <<[key |-> k, val |-> v]>> \o SubSeq(m, n + 1, Len(m))

(* ---------------------------- std::getline ---------------------------- *)

\* the position of the first newline of text at or after position i, or 0
NextNL(text, i) ==
    LET nls == {j \in i..Len(text) : text[j] = NL}
    IN  IF nls = {} THEN 0 ELSE CHOOSE j \in nls : \A k \in nls : j <= k

\* One getline(vFile, line) on a stream over text: pos chars are consumed, good
\* is the stream's good().  A stream that is not good fails the sentry and leaves
\* line as it was; otherwise line is erased and filled up to the next newline
\* (consumed, not stored) or to the end of the text, which sets eofbit, and
\* failbit too when no char was extracted.  ok is the stream's boolean value.
GetLine(text, pos, good, line) ==
    IF ~good THEN [line |-> line, pos |-> pos, good |-> FALSE, ok |-> FALSE]
    ELSE LET n == NextNL(text, pos + 1)
         IN  IF n # 0
             THEN [line |-> SubSeq(text, pos + 1, n - 1), pos |-> n,
                   good |-> TRUE, ok |-> TRUE]
             ELSE [line |-> SubSeq(text, pos + 1, Len(text)), pos |-> Len(text),
                   good |-> FALSE, ok |-> pos < Len(text)]

\* while (getline(vFile, line)) { fileName = line.substr(0, line.find('\t'));
\*                                vFileDict[fileName] = line; }
RECURSIVE ReadDict(_, _, _, _, _)
ReadDict(text, pos, good, line, dict) ==
    LET g == GetLine(text, pos, good, line)
    IN  IF ~g.ok THEN dict
        ELSE ReadDict(text, g.pos, g.good, g.line,
                      MapPut(dict, SubstrTo(g.line, Find(g.line, <<TAB>>)), g.line))

(* --------------------------- the environment -------------------------- *)

\* the passwd database behind getpwuid: uid 0 and uid 1000 have entries
Getpwuid(uid) ==
    IF uid = 0 THEN [ok |-> TRUE, pw_name |-> <<"r", "o", "o", "t">>]
    ELSE IF uid = 1000 THEN [ok |-> TRUE, pw_name |-> <<"u", "s", "e", "r">>]
    ELSE [ok |-> FALSE, pw_name |-> <<>>]

\* the group database behind getgrgid: gid 0, 50 and 1000 have entries
Getgrgid(gid) ==
    IF gid = 0 THEN [ok |-> TRUE, gr_name |-> <<"r", "o", "o", "t">>]
    ELSE IF gid = 50 THEN [ok |-> TRUE, gr_name |-> <<"s", "t", "a", "f", "f">>]
    ELSE IF gid = 1000 THEN [ok |-> TRUE, gr_name |-> <<"u", "s", "e", "r">>]
    ELSE [ok |-> FALSE, gr_name |-> <<>>]

\* what a read through a null or past-the-end pointer may yield when it does
\* not fault
Garbage == {<<>>, <<"?">>}

md5 == <<"m", "d", "5">>
sha1 == <<"s", "h", "a", "1">>

\* the hex-encoded digest, cut to its first four digits, of the two file
\* contents of the model: the empty file and the file holding "a"
HexDigest(hashF, content) ==
    IF hashF = md5
    THEN (IF content = <<>> THEN <<"D", "4", "1", "D">> ELSE <<"0", "C", "C", "1">>)
    ELSE (IF content = <<>> THEN <<"D", "A", "3", "9">> ELSE <<"8", "6", "F", "7">>)

\* hashFile: exits with "Invalid hash function" for any other name
hashFile(content, hashF) ==
    IF hashF = md5 \/ hashF = sha1
    THEN [ok |-> TRUE, hash |-> HexDigest(hashF, content)]
    ELSE [ok |-> FALSE, hash |-> <<>>]

\* struct stat info, a global: zero-initialised, overwritten by a stat that
\* succeeds and left as it was by one that fails
InfoZero == [st_size |-> 0, st_uid |-> 0, st_gid |-> 0, st_mode |-> 0]

Stat(m, inf) ==
    IF m.statOK
    THEN [st_size |-> m.st_size, st_uid |-> m.st_uid, st_gid |-> m.st_gid,
          st_mode |-> m.st_mode]
    ELSE inf

directory == <<"d", "i", "r", "e", "c", "t", "o", "r", "y">>

\* createTsvString(entry, hashF) on the entry at path with attributes m, the
\* global info holding inf: the set of its possible outcomes.  status is "ok"
\* with the line built, "FilesystemError" when entry.last_write_time() throws
\* (it stats the same path), "InvalidHash" when hashFile exits, or "Segfault"
\* when the read of pw->pw_name through a null pw faults.
createTsvString(path, m, hashF, inf) ==
    LET info1 == Stat(m, inf)
        pw == Getpwuid(info1.st_uid)
        gr == Getgrgid(info1.st_gid)
        owners == IF pw.ok THEN {pw.pw_name} ELSE Garbage
        size == to_string(info1.st_size)
        line1 == path \o <<TAB>> \o size \o <<TAB>>
        statchmod == info1.st_mode % 512
        Fail(s) == [status |-> s, line |-> <<>>, fields |-> <<>>, info |-> info1]
        Rest(name) ==
            LET line4 == line1 \o name \o <<TAB>> \o name \o <<TAB>>
                             \o ToOct(statchmod) \o <<TAB>>
                date == Strftime(m.mtime)
                line5 == line4 \o date \o <<TAB>>
                h == hashFile(m.content, hashF)
                digest == IF m.isDir THEN directory ELSE h.hash
            IN  IF ~m.statOK THEN Fail("FilesystemError")
                ELSE IF ~m.isDir /\ ~h.ok THEN Fail("InvalidHash")
                ELSE [status |-> "ok", info |-> info1,
                      line |-> line5 \o digest \o <<NL>>,
                      fields |-> <<path, size, name, name, ToOct(statchmod), date,
                                   digest>>]
    IN  {Rest(name) : name \in owners}
        \cup (IF pw.ok THEN {} ELSE {Fail("Segfault")})

(* --------------------------- the file system -------------------------- *)

\* the monitored directory and the entries that may lie below it
DirD == <<"/", "d">>
PathA == <<"/", "d", "/", "a">>
PathB == <<"/", "d", "/", "b">>
PathC == <<"/", "d", "/", "b", "/", "c">>
PathT == <<"/", "d", "/", "a", "\t", "z">>
Pool == {PathA, PathB, PathC, PathT}

\* a regular file: 1 byte "a", owned by user:user, mode 0100644, mtime 5 s
FileMeta ==
    [isDir |-> FALSE, st_size |-> 1, st_uid |-> 1000, st_gid |-> 1000,
     st_mode |-> 33188, mtime |-> 5, content |-> <<"a">>, statOK |-> TRUE]

\* a directory: mode 040755
DirMeta ==
    [isDir |-> TRUE, st_size |-> 4096, st_uid |-> 1000, st_gid |-> 1000,
     st_mode |-> 16877, mtime |-> 5, content |-> <<>>, statOK |-> TRUE]

\* what PathA may be: the file above, the file with one attribute changed,
\* a directory in its place, or an entry whose stat, owner lookup or group
\* lookup fails
AVariants ==
    {FileMeta,
     [FileMeta EXCEPT !.st_size = 12],
     [FileMeta EXCEPT !.st_uid = 0],
     [FileMeta EXCEPT !.st_gid = 50],
     [FileMeta EXCEPT !.st_mode = 33152],
     [FileMeta EXCEPT !.mtime = 75],
     [FileMeta EXCEPT !.content = <<>>],
     DirMeta,
     [FileMeta EXCEPT !.statOK = FALSE],
     [FileMeta EXCEPT !.st_uid = 7],
     [FileMeta EXCEPT !.st_gid = 9]}

Variants(p) ==
    IF p = PathA THEN AVariants ELSE IF p = PathB THEN {DirMeta} ELSE {FileMeta}

\* the directory trees of the model: at most MaxEntries entries, PathC only
\* inside the directory PathB
Trees ==
    UNION {{t \in [S -> AVariants \cup {DirMeta}] : \A p \in S : t[p] \in Variants(p)} :
           S \in {S \in SUBSET Pool : /\ Cardinality(S) <= MaxEntries
                                      /\ PathC \in S => PathB \in S}}

\* the (-D, -H) pairs of a run with -i: a good pair for either hash, a hash
\* that is not supported, a directory that does not exist, and -H missing
InitArgs ==
    {<<DirD, md5>>,
     <<DirD, sha1>>,
     <<DirD, <<"m", "d", "4">>>>,
     <<<<"/", "e">>, md5>>,
     <<DirD, <<>>>>}

\* the (-V, -R) pairs: both outside DirD; -V inside it; -R inside it; the two
\* equal; -R without ".txt"; -V missing; -R missing
PathArgs ==
    {<<<<"/", "s">>, <<"/", "r", ".", "t", "x", "t">>>>,
     <<<<"/", "d", "/", "s">>, <<"/", "r", ".", "t", "x", "t">>>>,
     <<<<"/", "s">>, <<"/", "d", "/", "r", ".", "t", "x", "t">>>>,
     <<<<"/", "r", ".", "t", "x", "t">>, <<"/", "r", ".", "t", "x", "t">>>>,
     <<<<"/", "s">>, <<"/", "r">>>>,
     <<<<>>, <<"/", "r", ".", "t", "x", "t">>>>,
     <<<<"/", "s">>, <<>>>>}
dotTxt == <<".", "t", "x", "t">>

(* ------------------------ the verification file ----------------------- *)

Title == <<"S", "I", "V", " ", "V", "e", "r", "i", "f", "i", "c", "a", "t", "i", "o", "n", " ", "F", "i", "l", "e">>
DirectoryTag == <<"D", "i", "r", "e", "c", "t", "o", "r", "y", ":", " ">>
HashTag == <<"H", "a", "s", "h", " ", "F", "u", "n", "c", "t", "i", "o", "n", ":", " ">>
Columns == <<"F", "i", "l", "e", " ", "N", "a", "m", "e", "\t", "F", "i", "l", "e", " ", "S", "i", "z", "e", "\t", "O", "w", "n", "e", "r", "\t", "G", "r", "o", "u", "p", "\t", "A", "c", "c", "e", "s", "s", " ", "R", "i", "g", "h", "t", "s", "\t", "L", "a", "s", "t", " ", "M", "o", "d", "i", "f", "i", "e", "d", "\t", "H", "a", "s", "h">>

\* the four header lines initialize writes, each ended by endl
Header(dir, hash) ==
    Title \o <<NL>> \o DirectoryTag \o dir \o <<NL>>
        \o HashTag \o hash \o <<NL>> \o Columns \o <<NL>>

NoFile == [exists |-> FALSE, text |-> <<>>]
File(text) == [exists |-> TRUE, text |-> text]

\* the line of the plain file PathA under md5, without its newline
LineA == EraseChar((CHOOSE r \in createTsvString(PathA, FileMeta, md5, InfoZero) : TRUE).line, NL)

\* What the file at the -V path may hold before the first run: nothing, an
\* empty file, the title line alone without a newline, a header naming the
\* hash "md4", a header naming the missing directory /e, a data line with an
\* eighth field, a data line with three fields.
InitialFiles ==
    {NoFile,
     File(<<>>),
     File(Title),
     File(Header(DirD, <<"m", "d", "4">>)),
     File(Header(<<"/", "e">>, md5)),
     File(Header(DirD, md5) \o LineA \o <<TAB, "x", NL>>),
     File(Header(DirD, md5) \o PathA \o <<TAB, "1", TAB>> \o <<"u", "s", "e", "r">> \o <<NL>>)}

(* ------------------------------- state -------------------------------- *)

VARIABLES
    tree,         \* the entries below DirD: path -> attributes
    vDisk,        \* the file at the -V path (NoFile when there is none)
    vFilePath,    \* -V, the same in every run of a behaviour
    rFilePath,    \* -R, the same in every run of a behaviour
    pc,           \* where the process is: "idle" between runs, "exit" after one
    mode,         \* main's mode: 1 for -i, 2 for -v, 3 for -h, 0 for none
    dirPath,      \* -D in initialize, the header's directory in verify
    hashF,        \* -H in initialize, the header's hash name in verify
    outcome,      \* how the run ended
    errPath,      \* the entry at which the walk ended the run
    info,         \* the global struct stat
    opened,       \* the files the run has opened: "v", "r"
    vBuf,         \* what initialize wrote to vFile after the last endl
    snapshot,     \* the records initialize collected, in walk order
    vPos,         \* verify's vFile stream: chars consumed
    vGood,        \* verify's vFile stream: good()
    line,         \* verify's line variable
    visited,      \* the entries the directory iterator has yielded
    fileNum,
    dirNum,
    vFileDict,
    dirFileDict,
    changedFiles,
    deletedFiles,
    newFiles,
    warnings,
    ci,           \* the index of the loop over changedFiles
    rFile,        \* the report as the run wrote it (NoFile before it opens it)
    lastInit      \* history: the tree and the counts of the initialize that
                  \* wrote the file at the -V path, if one completed

vars ==
    <<tree, vDisk, vFilePath, rFilePath, pc, mode, dirPath, hashF, outcome,
      errPath, info, opened, vBuf, snapshot, vPos, vGood, line, visited,
      fileNum, dirNum, vFileDict, dirFileDict, changedFiles, deletedFiles,
      newFiles, warnings, ci, rFile, lastInit>>

\* the variables of the file system and the command line
envVars == <<tree, vFilePath, rFilePath>>

\* the local variables of verify's comparison
cmpVars == <<changedFiles, deletedFiles, newFiles, warnings, ci>>

\* the variables of the directory walk
walkVars == <<info, visited, fileNum, dirNum, errPath>>

\* no initialize has completed on the file at the -V path
NoInit == [done |-> FALSE, tree |-> <<>>, fileNum |-> 0, dirNum |-> 0]

Init ==
    /\ tree \in Trees
    /\ vDisk \in InitialFiles
    /\ \E a \in PathArgs : vFilePath = a[1] /\ rFilePath = a[2]
    /\ pc = "idle"
    /\ mode = 0
    /\ dirPath = <<>>
    /\ hashF = <<>>
    /\ outcome = "none"
    /\ errPath = <<>>
    /\ info = InfoZero
    /\ opened = {}
    /\ vBuf = <<>>
    /\ snapshot = <<>>
    /\ vPos = 0
    /\ vGood = TRUE
    /\ line = <<>>
    /\ visited = {}
    /\ fileNum = 0
    /\ dirNum = 0
    /\ vFileDict = <<>>
    /\ dirFileDict = <<>>
    /\ changedFiles = <<>>
    /\ deletedFiles = <<>>
    /\ newFiles = <<>>
    /\ warnings = <<>>
    /\ ci = 0
    /\ rFile = NoFile
    /\ lastInit = NoInit

(* -------------------------------- main -------------------------------- *)

\* main's checks after getopt: the function it calls, or the exit it takes
MainChecks(m, D, V, R, H) ==
    IF m = 0 THEN "Usage"
    ELSE IF m = 1 /\ D = <<>> THEN "Usage"
    ELSE IF m = 1 /\ V = <<>> THEN "Usage"
    ELSE IF m = 1 /\ R = <<>> THEN "Usage"
    ELSE IF m = 1 /\ H = <<>> THEN "Usage"
    ELSE IF m = 2 /\ V = <<>> THEN "Usage"
    ELSE IF m = 2 /\ R = <<>> THEN "Usage"
    ELSE IF m = 1 /\ H # md5 /\ H # sha1 THEN "InvalidHash"
    ELSE IF m # 1 /\ m # 2 /\ m # 3 THEN "Usage"
    ELSE IF m = 3 THEN "Help"
    ELSE IF m = 1 THEN "initialize"
    ELSE "verify"

\* a run of siv with -i, -v or -h: -D and -H are given with -i only
Main ==
    /\ pc = "idle"
    /\ \E m \in 1..3, D \in {a[1] : a \in InitArgs} \cup {<<>>},
                      H \in {a[2] : a \in InitArgs} \cup {<<>>} :
        /\ IF m = 1 THEN <<D, H>> \in InitArgs ELSE D = <<>> /\ H = <<>>
        /\ mode' = m
        /\ dirPath' = D
        /\ hashF' = H
        /\ LET c == MainChecks(m, D, vFilePath, rFilePath, H)
           IN  IF c \in {"initialize", "verify"}
               THEN pc' = c /\ outcome' = "none"
               ELSE pc' = "exit" /\ outcome' = c
    /\ UNCHANGED <<envVars, vDisk, walkVars, opened, vBuf, snapshot, vPos, vGood,
                   line, vFileDict, dirFileDict, cmpVars, rFile>>
    /\ UNCHANGED lastInit

\* the process has ended; the next run starts from fresh locals and globals
Restart ==
    /\ pc = "exit"
    /\ pc' = "idle"
    /\ mode' = 0
    /\ dirPath' = <<>>
    /\ hashF' = <<>>
    /\ outcome' = "none"
    /\ errPath' = <<>>
    /\ info' = InfoZero
    /\ opened' = {}
    /\ vBuf' = <<>>
    /\ snapshot' = <<>>
    /\ vPos' = 0
    /\ vGood' = TRUE
    /\ line' = <<>>
    /\ visited' = {}
    /\ fileNum' = 0
    /\ dirNum' = 0
    /\ vFileDict' = <<>>
    /\ dirFileDict' = <<>>
    /\ changedFiles' = <<>>
    /\ deletedFiles' = <<>>
    /\ newFiles' = <<>>
    /\ warnings' = <<>>
    /\ ci' = 0
    /\ rFile' = NoFile
    /\ UNCHANGED <<envVars, vDisk>>
    /\ UNCHANGED lastInit

\* t2 is t1 with one entry created, removed or altered
OneChange(t1, t2) ==
    /\ t1 # t2
    /\ \E p \in Pool : \A q \in Pool \ {p} :
            /\ q \in DOMAIN t1 <=> q \in DOMAIN t2
            /\ q \in DOMAIN t1 => t1[q] = t2[q]

\* the trees one change away from each tree
Neighbours == [t \in Trees |-> {u \in Trees : OneChange(t, u)}]

\* between two runs the monitored directory changes, one entry at a time
Change ==
    /\ pc = "idle"
    /\ tree' \in Neighbours[tree]
    /\ UNCHANGED <<vDisk, vFilePath, rFilePath, pc, mode, dirPath, hashF, outcome,
                   walkVars, opened, vBuf, snapshot, vPos, vGood, line, vFileDict,
                   dirFileDict, cmpVars, rFile>>
    /\ UNCHANGED lastInit

(* --------------------------- the directory walk ----------------------- *)

\* fs::exists(p)
Exists(p) == p = DirD \/ p \in DOMAIN tree

IsDirectory(p) == p = DirD \/ (p \in DOMAIN tree /\ tree[p].isDir)

\* p is an entry of the directory q
IsChild(p, q) ==
    /\ Find(p, q \o <<"/">>) = 0
    /\ Len(p) > Len(q) + 1
    /\ Find(SubstrFrom(p, Len(q) + 1), <<"/">>) = npos

Children(q) == {p \in DOMAIN tree : IsChild(p, q)}

\* The entries fs::recursive_directory_iterator(root) may yield next: it goes
\* depth first, so an entry of the deepest directory it has entered and not
\* finished; within one directory the order is the file system's.
NextEntries(root, vis) ==
    LET open == {q \in vis : tree[q].isDir /\ Children(q) \ vis # {}}
    IN  IF open = {} THEN Children(root) \ vis
        ELSE Children(CHOOSE q \in open : \A r \in open : Len(r) <= Len(q)) \ vis

\* exit(EXIT_FAILURE) or a plain return from main
Exit(o) == pc' = "exit" /\ outcome' = o

(* ----------------------------- initialize ----------------------------- *)

\* PathChecks without the comparison of the two file paths
PathChecksNoEqual(D, V, R) ==
    IF Find(V, D) # npos THEN "PathConflict"
    ELSE IF Find(R, D) # npos THEN "PathConflict"
    ELSE IF Find(R, dotTxt) = npos THEN "NotTxt"
    ELSE "ok"

\* lines 199-223 of initialize and, the same code, lines 299-325 of verify: the
\* exit the four checks of the paths take, or "ok"
PathChecks(D, V, R) ==
    IF Find(V, D) # npos THEN "PathConflict"
    ELSE IF Find(R, D) # npos THEN "PathConflict"
    ELSE IF V = R THEN "PathConflict"
    ELSE IF Find(R, dotTxt) = npos THEN "NotTxt"
    ELSE "ok"

\* lines 192-223: the checks before any file is opened
InitializeChecks ==
    /\ pc = "initialize"
    /\ IF ~Exists(dirPath) THEN Exit("PathNotFound")
       ELSE IF PathChecks(dirPath, vFilePath, rFilePath) # "ok"
       THEN Exit(PathChecks(dirPath, vFilePath, rFilePath))
       ELSE pc' = "init_open" /\ outcome' = outcome
    /\ UNCHANGED <<envVars, vDisk, mode, dirPath, hashF, walkVars, opened, vBuf,
                   snapshot, vPos, vGood, line, vFileDict, dirFileDict, cmpVars,
                   rFile>>
    /\ UNCHANGED lastInit

\* lines 225-235: vFile is created (or truncated) and the header written; every
\* header line ends with endl, which flushes it to the file
InitializeOpen ==
    /\ pc = "init_open"
    /\ opened' = opened \cup {"v"}
    /\ vDisk' = File(Header(dirPath, hashF))
    /\ vBuf' = <<>>
    /\ fileNum' = 0
    /\ dirNum' = 0
    /\ pc' = "init_walk"
    /\ UNCHANGED <<envVars, mode, dirPath, hashF, outcome, errPath, info, visited,
                   snapshot, vPos, vGood, line, vFileDict, dirFileDict, cmpVars,
                   rFile>>
    /\ lastInit' = NoInit

\* lines 238-252, one entry: its line goes to vFile's buffer (no endl follows
\* it); a run that ends here never flushes the buffer
InitializeEntry ==
    /\ pc = "init_walk"
    /\ \E p \in NextEntries(dirPath, visited) :
       \E r \in createTsvString(p, tree[p], hashF, info) :
        /\ info' = r.info
        /\ visited' = visited \cup {p}
        /\ IF r.status = "ok"
           THEN /\ vBuf' = vBuf \o r.line
                /\ snapshot' = Append(snapshot, r.fields)
                /\ dirNum' = IF tree[p].isDir THEN dirNum + 1 ELSE dirNum
                /\ fileNum' = IF tree[p].isDir THEN fileNum ELSE fileNum + 1
                /\ UNCHANGED <<pc, outcome, errPath>>
           ELSE /\ Exit(r.status)
                /\ errPath' = p
                /\ UNCHANGED <<vBuf, snapshot, dirNum, fileNum>>
    /\ UNCHANGED <<envVars, vDisk, mode, dirPath, hashF, opened, vPos, vGood, line,
                   vFileDict, dirFileDict, cmpVars, rFile>>
    /\ UNCHANGED lastInit

\* the report of initialize; the run takes less than a second
InitReport(dir, vPath, files, dirs, hash) ==
    <<"S", "I", "V", " ", "R", "e", "p", "o", "r", "t", " ", "F", "i", "l", "e">> \o <<NL>>
    \o <<"D", "i", "r", "e", "c", "t", "o", "r", "y", ":", " ">> \o dir \o <<NL>>
    \o <<"V", "e", "r", "i", "f", "i", "c", "a", "t", "i", "o", "n", " ", "F", "i", "l", "e", ":", " ">> \o vPath \o <<NL>>
    \o <<"N", "u", "m", "b", "e", "r", " ", "o", "f", " ", "p", "a", "r", "s", "e", "d", " ", "F", "i", "l", "e", "s", ":", " ">> \o to_string(files) \o <<NL>>
    \o <<"N", "u", "m", "b", "e", "r", " ", "o", "f", " ", "p", "a", "r", "s", "e", "d", " ", "D", "i", "r", "e", "c", "t", "o", "r", "i", "e", "s", ":", " ">> \o to_string(dirs) \o <<NL>>
    \o <<"H", "a", "s", "h", " ", "F", "u", "n", "c", "t", "i", "o", "n", ":", " ">> \o hash \o <<NL>>
    \o <<"T", "i", "m", "e", " ", "o", "f", " ", "I", "n", "i", "t", "i", "a", "l", "i", "z", "a", "t", "i", "o", "n", " ", "(", "i", "n", " ", "s", "e", "c", "o", "n", "d", "s", ")", ":", " ">> \o to_string(0) \o <<NL>>

\* lines 254-266: the report is written and closed; on return vFile's
\* destructor flushes the entry lines and closes the file
InitializeReport ==
    /\ pc = "init_walk"
    /\ NextEntries(dirPath, visited) = {}
    /\ opened' = opened \cup {"r"}
    /\ rFile' = File(InitReport(dirPath, vFilePath, fileNum, dirNum, hashF))
    /\ vDisk' = File(vDisk.text \o vBuf)
    /\ vBuf' = <<>>
    /\ Exit("Complete")
    /\ UNCHANGED <<envVars, mode, dirPath, hashF, walkVars, snapshot, vPos, vGood,
                   line, vFileDict, dirFileDict, cmpVars>>
    /\ lastInit' = [done |-> TRUE, tree |-> tree, fileNum |-> fileNum, dirNum |-> dirNum]

(* ------------------------------- verify ------------------------------- *)

\* lines 276-297: the file is opened and the four header lines are read;
\* line.substr(11) and line.substr(15) throw std::out_of_range, which nothing
\* catches, on a line shorter than that
VerifyOpen ==
    /\ pc = "verify"
    /\ IF ~vDisk.exists
       THEN /\ Exit("VFileMissing")
            /\ UNCHANGED <<opened, dirPath, hashF, vPos, vGood, line>>
       ELSE LET g1 == GetLine(vDisk.text, 0, TRUE, <<>>)
                g2 == GetLine(vDisk.text, g1.pos, g1.good, g1.line)
                g3 == GetLine(vDisk.text, g2.pos, g2.good, g2.line)
                g4 == GetLine(vDisk.text, g3.pos, g3.good, g3.line)
            IN  /\ opened' = opened \cup {"v"}
                /\ IF Len(g2.line) < 11
                   THEN /\ Exit("OutOfRange")
                        /\ vPos' = g2.pos /\ vGood' = g2.good /\ line' = g2.line
                        /\ UNCHANGED <<dirPath, hashF>>
                   ELSE IF Len(g3.line) < 15
                   THEN /\ Exit("OutOfRange")
                        /\ dirPath' = SubstrFrom(g2.line, 11)
                        /\ vPos' = g3.pos /\ vGood' = g3.good /\ line' = g3.line
                        /\ UNCHANGED hashF
                   ELSE /\ dirPath' = SubstrFrom(g2.line, 11)
                        /\ hashF' = SubstrFrom(g3.line, 15)
                        /\ vPos' = g4.pos /\ vGood' = g4.good /\ line' = g4.line
                        /\ pc' = "verify_checks"
                        /\ UNCHANGED outcome
    /\ UNCHANGED <<envVars, vDisk, mode, walkVars, vBuf, snapshot, vFileDict,
                   dirFileDict, cmpVars, rFile>>
    /\ UNCHANGED lastInit

\* lines 299-325
VerifyChecks ==
    /\ pc = "verify_checks"
    /\ IF PathChecks(dirPath, vFilePath, rFilePath) # "ok"
       THEN Exit(PathChecks(dirPath, vFilePath, rFilePath))
       ELSE pc' = "verify_read" /\ outcome' = outcome
    /\ UNCHANGED <<envVars, vDisk, mode, dirPath, hashF, walkVars, opened, vBuf,
                   snapshot, vPos, vGood, line, vFileDict, dirFileDict, cmpVars,
                   rFile>>
    /\ UNCHANGED lastInit

\* lines 327-336: the rest of the file, one dictionary entry per line
VerifyRead ==
    /\ pc = "verify_read"
    /\ vFileDict' = ReadDict(vDisk.text, vPos, vGood, line, <<>>)
    /\ fileNum' = 0
    /\ dirNum' = 0
    /\ pc' = "verify_walk"
    /\ UNCHANGED <<envVars, vDisk, mode, dirPath, hashF, outcome, errPath, info,
                   visited, opened, vBuf, snapshot, vPos, vGood, line, dirFileDict,
                   cmpVars, rFile>>
    /\ UNCHANGED lastInit

\* line 340: fs::recursive_directory_iterator(dirPath) throws a
\* filesystem_error, which nothing catches, when dirPath is no directory
VerifyWalkThrow ==
    /\ pc = "verify_walk"
    /\ ~IsDirectory(dirPath)
    /\ Exit("FilesystemError")
    /\ errPath' = dirPath
    /\ UNCHANGED <<envVars, vDisk, mode, dirPath, hashF, info, visited, fileNum,
                   dirNum, opened, vBuf, snapshot, vPos, vGood, line, vFileDict,
                   dirFileDict, cmpVars, rFile>>
    /\ UNCHANGED lastInit

\* lines 340-354, one entry
VerifyEntry ==
    /\ pc = "verify_walk"
    /\ IsDirectory(dirPath)
    /\ \E p \in NextEntries(dirPath, visited) :
       \E r \in createTsvString(p, tree[p], hashF, info) :
        /\ info' = r.info
        /\ visited' = visited \cup {p}
        /\ IF r.status = "ok"
           THEN /\ dirFileDict' = MapPut(dirFileDict, p, EraseChar(r.line, NL))
                /\ dirNum' = IF tree[p].isDir THEN dirNum + 1 ELSE dirNum
                /\ fileNum' = IF tree[p].isDir THEN fileNum ELSE fileNum + 1
                /\ UNCHANGED <<pc, outcome, errPath>>
           ELSE /\ Exit(r.status)
                /\ errPath' = p
                /\ UNCHANGED <<dirFileDict, dirNum, fileNum>>
    /\ UNCHANGED <<envVars, vDisk, mode, dirPath, hashF, opened, vBuf, snapshot,
                   vPos, vGood, line, vFileDict, cmpVars, rFile>>
    /\ UNCHANGED lastInit

\* the keys of a sequence of entries of a map, in its order
KeysOf(s) == [i \in 1..Len(s) |-> s[i].key]

\* ChangedOf without the comparison of the two lines
ChangedOfAllCommon(vDict, dDict) == KeysOf(SelectSeq(vDict, LAMBDA e : MapHas(dDict, e.key)))

\* lines 360-379, the entries pushed to changedFiles
ChangedOf(vDict, dDict) ==
    KeysOf(SelectSeq(vDict, LAMBDA e : MapHas(dDict, e.key) /\ e.val # MapGet(dDict, e.key)))

\* DeletedOf with the two dictionaries taken the wrong way round
DeletedOfSwapped(vDict, dDict) == KeysOf(SelectSeq(dDict, LAMBDA e : ~MapHas(vDict, e.key)))

\* lines 360-379, the entries pushed to deletedFiles
DeletedOf(vDict, dDict) == KeysOf(SelectSeq(vDict, LAMBDA e : ~MapHas(dDict, e.key)))

\* lines 382-389
NewOf(vDict, dDict) == KeysOf(SelectSeq(dDict, LAMBDA e : ~MapHas(vDict, e.key)))

isDeleted == <<" ", "i", "s", " ", "d", "e", "l", "e", "t", "e", "d">>
isNew == <<" ", "i", "s", " ", "n", "e", "w">>

\* lines 356-403: the three lists, and the warnings of the deleted and new files
VerifyCompare ==
    /\ pc = "verify_walk"
    /\ IsDirectory(dirPath)
    /\ NextEntries(dirPath, visited) = {}
    /\ changedFiles' = ChangedOf(vFileDict, dirFileDict)
    /\ deletedFiles' = DeletedOf(vFileDict, dirFileDict)
    /\ newFiles' = NewOf(vFileDict, dirFileDict)
    /\ warnings' = [i \in 1..Len(deletedFiles') |-> deletedFiles'[i] \o isDeleted]
                   \o [i \in 1..Len(newFiles') |-> newFiles'[i] \o isNew]
    /\ ci' = 0
    /\ pc' = "verify_changed"
    /\ UNCHANGED <<envVars, vDisk, mode, dirPath, hashF, outcome, walkVars, opened,
                   vBuf, snapshot, vPos, vGood, line, vFileDict, dirFileDict, rFile>>
    /\ UNCHANGED lastInit

\* the text of the six warnings, in the order of lines 452-484
FieldText ==
    <<<<" ", "f", "i", "l", "e", " ", "s", "i", "z", "e", " ", "i", "s", " ", "d", "i", "f", "f", "e", "r", "e", "n", "t", ":", " ">>,
      <<" ", "o", "w", "n", "e", "r", " ", "i", "s", " ", "d", "i", "f", "f", "e", "r", "e", "n", "t", ":", " ">>,
      <<" ", "g", "r", "o", "u", "p", " ", "i", "s", " ", "d", "i", "f", "f", "e", "r", "e", "n", "t", ":", " ">>,
      <<" ", "a", "c", "c", "e", "s", "s", " ", "r", "i", "g", "h", "t", "s", " ", "a", "r", "e", " ", "d", "i", "f", "f", "e", "r", "e", "n", "t", ":", " ">>,
      <<" ", "l", "a", "s", "t", " ", "m", "o", "d", "i", "f", "i", "e", "d", " ", "t", "i", "m", "e", " ", "i", "s", " ", "d", "i", "f", "f", "e", "r", "e", "n", "t", ":", " ">>,
      <<" ", "h", "a", "s", "h", " ", "i", "s", " ", "d", "i", "f", "f", "e", "r", "e", "n", "t", ":", " ">>>>

\* Discrepancies without the comparison of the hashes
RECURSIVE DiscrepanciesNoHash(_, _, _, _)
DiscrepanciesNoHash(fileName, vSplit, dSplit, k) ==
    IF k > 5 THEN <<>>
    ELSE (IF vSplit[k + 1] # dSplit[k + 1]
          THEN <<fileName \o FieldText[k] \o vSplit[k + 1] \o <<" ">> \o dSplit[k + 1]>>
          ELSE <<>>)
         \o DiscrepanciesNoHash(fileName, vSplit, dSplit, k + 1)

\* lines 449-484: one warning per field 1..6 whose two strings differ
RECURSIVE Discrepancies(_, _, _, _)
Discrepancies(fileName, vSplit, dSplit, k) ==
    IF k > 6 THEN <<>>
    ELSE (IF vSplit[k + 1] # dSplit[k + 1]
          THEN <<fileName \o FieldText[k] \o vSplit[k + 1] \o <<" ">> \o dSplit[k + 1]>>
          ELSE <<>>)
         \o Discrepancies(fileName, vSplit, dSplit, k + 1)

\* a vector read at indices 1..6: an index past its end reads g
Padded(split, g) == [i \in 1..7 |-> IF i <= Len(split) THEN split[i] ELSE g]

\* lines 406-485, one changed file.  vFileLineSplit[k] on a vector of fewer
\* than seven strings reads past its end: the read faults, or yields garbage.
VerifyChanged ==
    /\ pc = "verify_changed"
    /\ ci < Len(changedFiles)
    /\ LET fileName == changedFiles[ci + 1]
           vFileLineSplit == SplitTab(MapGet(vFileDict, fileName))
           dirFileLineSplit == SplitTab(MapGet(dirFileDict, fileName))
       IN  IF Len(vFileLineSplit) >= 7 /\ Len(dirFileLineSplit) >= 7
           THEN /\ warnings' = warnings \o
                        Discrepancies(fileName, vFileLineSplit, dirFileLineSplit, 1)
                /\ ci' = ci + 1
                /\ UNCHANGED <<pc, outcome>>
           ELSE \/ /\ Exit("Segfault")
                   /\ UNCHANGED <<warnings, ci>>
                \/ \E gv \in Garbage, gd \in Garbage :
                    /\ warnings' = warnings \o
                            Discrepancies(fileName, Padded(vFileLineSplit, gv),
                                          Padded(dirFileLineSplit, gd), 1)
                    /\ ci' = ci + 1
                    /\ UNCHANGED <<pc, outcome>>
    /\ UNCHANGED <<envVars, vDisk, mode, dirPath, hashF, walkVars, opened, vBuf,
                   snapshot, vPos, vGood, line, vFileDict, dirFileDict, changedFiles,
                   deletedFiles, newFiles, rFile>>
    /\ UNCHANGED lastInit

RECURSIVE Lines(_)
Lines(ws) == IF ws = <<>> THEN <<>> ELSE Head(ws) \o <<NL>> \o Lines(Tail(ws))

\* the report of verify
VerifyReportText(dir, vPath, hash, files, dirs, nDel, nNew, nChg, ws) ==
    <<"S", "I", "V", " ", "R", "e", "p", "o", "r", "t", " ", "F", "i", "l", "e">> \o <<NL>>
    \o <<"D", "i", "r", "e", "c", "t", "o", "r", "y", ":", " ">> \o dir \o <<NL>>
    \o <<"V", "e", "r", "i", "f", "i", "c", "a", "t", "i", "o", "n", " ", "F", "i", "l", "e", ":", " ">> \o vPath \o <<NL>>
    \o <<"H", "a", "s", "h", " ", "F", "u", "n", "c", "t", "i", "o", "n", ":", " ">> \o hash \o <<NL>>
    \o <<"N", "u", "m", "b", "e", "r", " ", "o", "f", " ", "P", "a", "r", "s", "e", "d", " ", "F", "i", "l", "e", "s", ":", " ">> \o to_string(files) \o <<NL>>
    \o <<"N", "u", "m", "b", "e", "r", " ", "o", "f", " ", "P", "a", "r", "s", "e", "d", " ", "D", "i", "r", "e", "c", "t", "o", "r", "i", "e", "s", ":", " ">> \o to_string(dirs) \o <<NL>>
    \o <<"N", "u", "m", "b", "e", "r", " ", "o", "f", " ", "D", "e", "l", "e", "t", "e", "d", " ", "F", "i", "l", "e", "s", ":", " ">> \o to_string(nDel) \o <<NL>>
    \o <<"N", "u", "m", "b", "e", "r", " ", "o", "f", " ", "N", "e", "w", " ", "F", "i", "l", "e", "s", ":", " ">> \o to_string(nNew) \o <<NL>>
    \o <<"N", "u", "m", "b", "e", "r", " ", "o", "f", " ", "C", "h", "a", "n", "g", "e", "d", " ", "F", "i", "l", "e", "s", ":", " ">> \o to_string(nChg) \o <<NL>>
    \o <<"W", "a", "r", "n", "i", "n", "g", "s", ":">> \o <<NL>>
    \o Lines(ws)

\* lines 487-505
VerifyReport ==
    /\ pc = "verify_changed"
    /\ ci = Len(changedFiles)
    /\ opened' = opened \cup {"r"}
    /\ rFile' = File(VerifyReportText(dirPath, vFilePath, hashF, fileNum, dirNum,
                                      Len(deletedFiles), Len(newFiles),
                                      Len(changedFiles), warnings))
    /\ Exit("Complete")
    /\ UNCHANGED <<envVars, vDisk, mode, dirPath, hashF, walkVars, vBuf, snapshot,
                   vPos, vGood, line, vFileDict, dirFileDict, cmpVars>>
    /\ UNCHANGED lastInit

(* --------------------------- the specification ------------------------ *)

Next ==
    \/ Main
    \/ Restart
    \/ Change
    \/ InitializeChecks
    \/ InitializeOpen
    \/ InitializeEntry
    \/ InitializeReport
    \/ VerifyOpen
    \/ VerifyChecks
    \/ VerifyRead
    \/ VerifyWalkThrow
    \/ VerifyEntry
    \/ VerifyCompare
    \/ VerifyChanged
    \/ VerifyReport

Spec == Init /\ [][Next]_vars

(* ------------------------------- claims ------------------------------- *)

SeqSet(s) == {s[i] : i \in 1..Len(s)}

Count(s, x) == Cardinality({i \in 1..Len(s) : s[i] = x})

\* the lines of a text: what lies between its newlines, and after the last one
\* when the text does not end with a newline
LinesOf(text) ==
    LET nls == {i \in 1..Len(text) : text[i] = NL}
        n == Cardinality(nls)
        At(k) == IF k = 0 THEN 0
                 ELSE IF k > n THEN Len(text) + 1
                 ELSE CHOOSE i \in nls : Cardinality({j \in nls : j < i}) = k - 1
        m == IF At(n) = Len(text) THEN n ELSE n + 1
    IN  [k \in 1..m |-> SubSeq(text, At(k - 1) + 1, At(k) - 1)]

\* the lines of a verification file after its four header lines
DataLines(text) == SubSeq(LinesOf(text), 5, Len(LinesOf(text)))

\* the part of a line before its first tab: the path of the record
KeyOf(l) == IF TAB \in SeqSet(l) THEN SubSeq(l, 1, (CHOOSE i \in 1..Len(l) :
                    l[i] = TAB /\ \A j \in 1..(i - 1) : l[j] # TAB) - 1)
            ELSE l

\* the paths the baseline holds: the keys of the data lines of the file
BaselineKeys == {KeyOf(l) : l \in SeqSet(DataLines(vDisk.text))}

\* verify has run its comparison (lines 356-389)
Compared ==
    /\ mode = 2
    /\ pc = "verify_changed" \/ (pc = "exit" /\ outcome = "Complete")

\* C1: after verify's comparison a path is in deletedFiles, once, exactly when
\* it is a key of the baseline and not an entry of the current walk, and in
\* newFiles, once, exactly when it is an entry of the current walk and not a key
\* of the baseline; such a path is in neither of the other two lists, and its
\* warning line is in the report.
C1_DeletedAddedExact ==
    Compared =>
        LET base == BaselineKeys
            cur == DOMAIN tree
        IN  \A p \in base \cup cur \cup SeqSet(deletedFiles) \cup SeqSet(newFiles) :
                /\ Count(deletedFiles, p) = (IF p \in base \ cur THEN 1 ELSE 0)
                /\ Count(newFiles, p) = (IF p \in cur \ base THEN 1 ELSE 0)
                /\ p \in base \ cur =>
                    /\ p \notin SeqSet(changedFiles)
                    /\ p \o isDeleted \in SeqSet(warnings)
                /\ p \in cur \ base =>
                    /\ p \notin SeqSet(changedFiles)
                    /\ p \o isNew \in SeqSet(warnings)

\* C1 witness: a finished verify that found a deleted and a new path
C1_Witness ==
    /\ pc = "exit" /\ mode = 2 /\ outcome = "Complete"
    /\ deletedFiles # <<>>
    /\ newFiles # <<>>
    /\ SeqSet(deletedFiles) \cap SeqSet(newFiles) = {}

\* s begins with pre
StartsWith(s, pre) == Len(s) >= Len(pre) /\ SubSeq(s, 1, Len(pre)) = pre

\* the warnings that report a field of path p
FieldWarnings(p) ==
    SelectSeq(warnings, LAMBDA w : \E k \in 1..6 : StartsWith(w, p \o FieldText[k]))

\* C2: when verify has written its report, deletedFiles, newFiles and
\* changedFiles are pairwise disjoint and every path of changedFiles has at
\* least one warning that reports one of its six fields.
C2_DisjointAndDiscrepancy ==
    (pc = "exit" /\ mode = 2 /\ outcome = "Complete") =>
        /\ SeqSet(deletedFiles) \cap SeqSet(newFiles) = {}
        /\ SeqSet(deletedFiles) \cap SeqSet(changedFiles) = {}
        /\ SeqSet(newFiles) \cap SeqSet(changedFiles) = {}
        /\ \A p \in SeqSet(changedFiles) : FieldWarnings(p) # <<>>

\* the seven strings of a record that has seven
IsRecord(l) == Len(SplitTab(l)) = 7

\* the fields 1..6 in which two records differ
Differing(vs, ds) == {k \in 1..6 : vs[k + 1] # ds[k + 1]}

\* the k-th smallest element of a set of numbers
Nth(S, k) == CHOOSE x \in S : Cardinality({y \in S : y < x}) = k - 1

\* C3: when verify has written its report, every path that is a key of both
\* dictionaries with a record of seven fields in each is in changedFiles if and
\* only if one of the fields 1..6 (size, owner, group, access rights, last
\* modified time, hash) differs, and the report holds for it exactly one warning
\* per differing field, in the order of the fields, with the field's text, the
\* baseline string, a space and the current string.
C3_FieldDiscrepancies ==
    (pc = "exit" /\ mode = 2 /\ outcome = "Complete") =>
        \A p \in MapKeys(vFileDict) \cap MapKeys(dirFileDict) :
            (IsRecord(MapGet(vFileDict, p)) /\ IsRecord(MapGet(dirFileDict, p))) =>
                LET vs == SplitTab(MapGet(vFileDict, p))
                    ds == SplitTab(MapGet(dirFileDict, p))
                    K == Differing(vs, ds)
                    W == FieldWarnings(p)
                IN  /\ p \in SeqSet(changedFiles) <=> K # {}
                    /\ Count(changedFiles, p) <= 1
                    /\ Len(W) = Cardinality(K)
                    /\ \A i \in 1..Len(W) :
                        LET k == Nth(K, i)
                        IN  W[i] = p \o FieldText[k] \o vs[k + 1] \o <<" ">> \o ds[k + 1]

\* C3 witness: a finished verify with a path whose two records differ in the
\* hash alone, and one whose records differ in the access rights alone
C3_Witness ==
    /\ pc = "exit" /\ mode = 2 /\ outcome = "Complete"
    /\ \E p \in SeqSet(changedFiles) :
        /\ IsRecord(MapGet(vFileDict, p))
        /\ IsRecord(MapGet(dirFileDict, p))
        /\ Differing(SplitTab(MapGet(vFileDict, p)), SplitTab(MapGet(dirFileDict, p)))
              \in {{6}, {4}}
        /\ Len(FieldWarnings(p)) = 1

\* what verify reads from a verification file (lines 283-336): the directory
\* and the hash function of its header and the dictionary of its lines
Decoded(text) ==
    LET g1 == GetLine(text, 0, TRUE, <<>>)
        g2 == GetLine(text, g1.pos, g1.good, g1.line)
        g3 == GetLine(text, g2.pos, g2.good, g2.line)
        g4 == GetLine(text, g3.pos, g3.good, g3.line)
    IN  [dir |-> IF Len(g2.line) >= 11 THEN SubstrFrom(g2.line, 11) ELSE <<>>,
         hash |-> IF Len(g3.line) >= 15 THEN SubstrFrom(g3.line, 15) ELSE <<>>,
         dict |-> ReadDict(text, g4.pos, g4.good, g4.line, <<>>)]

\* C4: when initialize has completed, decoding the verification file it wrote
\* as verify reads it gives back the monitored directory, the hash function
\* and, for every record written, its path as a key with the same seven
\* strings.
C4_RoundTrip ==
    (pc = "exit" /\ mode = 1 /\ outcome = "Complete") =>
        LET d == Decoded(vDisk.text)
        IN  /\ d.dir = dirPath
            /\ d.hash = hashF
            /\ MapKeys(d.dict) = {snapshot[i][1] : i \in 1..Len(snapshot)}
            /\ \A i \in 1..Len(snapshot) :
                /\ MapHas(d.dict, snapshot[i][1])
                /\ SplitTab(MapGet(d.dict, snapshot[i][1])) = snapshot[i]

\* p lies below the directory d
IsSubPath(p, d) == StartsWith(p, d \o <<"/">>)

\* the snapshot file or the report file lies below the monitored directory, or
\* the two are one file
Conflict(D, V, R) == IsSubPath(V, D) \/ IsSubPath(R, D) \/ V = R

\* initialize has been entered, or verify has read the directory of the header
Entered ==
    \/ mode = 1 /\ pc # "idle" /\ outcome \notin {"Usage", "InvalidHash"}
    \/ mode = 2 /\ pc \notin {"idle", "verify"}
                /\ outcome \notin {"Usage", "VFileMissing", "OutOfRange"}

\* C5 as the specification states it: on a path conflict initialize and
\* verify end with the path-conflict error and have opened, created or written
\* neither the snapshot file nor the report file.
C5_NoFileTouched ==
    (Entered /\ Conflict(dirPath, vFilePath, rFilePath)) =>
        /\ opened = {}
        /\ rFile = NoFile
        /\ pc = "exit" => outcome = "PathConflict"

\* C5: on a path conflict neither run completes and neither opens or writes
\* the report file.  initialize opens no file at all and ends with the
\* path-conflict error when the monitored directory exists (a missing directory
\* is reported first); verify, which finds the monitored directory in the header
\* of the snapshot file, has opened that file for reading and nothing else, and
\* ends with the path-conflict error.
C5_PathConflict ==
    (Entered /\ Conflict(dirPath, vFilePath, rFilePath)) =>
        /\ "r" \notin opened
        /\ rFile = NoFile
        /\ outcome # "Complete"
        /\ pc \in {"initialize", "verify_checks", "exit"}
        /\ mode = 1 => /\ opened = {}
                       /\ pc = "exit" =>
                            outcome = IF Exists(dirPath) THEN "PathConflict"
                                      ELSE "PathNotFound"
        /\ mode = 2 => /\ opened = {"v"}
                       /\ pc = "exit" => outcome = "PathConflict"

\* C5 witness: verify has ended on a path conflict with the snapshot file open
C5_Witness ==
    /\ pc = "exit" /\ mode = 2 /\ outcome = "PathConflict"
    /\ Conflict(dirPath, vFilePath, rFilePath)
    /\ opened = {"v"}

\* the header of a verification file is missing, or one of its data lines does
\* not hold seven fields
Malformed(text) ==
    LET ls == LinesOf(text)
    IN  \/ Len(ls) < 4
        \/ ls[1] # Title
        \/ ~StartsWith(ls[2], DirectoryTag)
        \/ ~StartsWith(ls[3], HashTag)
        \/ ls[4] # Columns
        \/ \E i \in 5..Len(ls) : ~IsRecord(ls[i])

\* C6: verify on a malformed verification file ends with an error before it
\* walks the directory: it does not crash, does not go on with the lines it
\* could read and writes no report.
C6_MalformedRejected ==
    (mode = 2 /\ vDisk.exists /\ Malformed(vDisk.text)) =>
        /\ pc \in {"verify", "verify_checks", "exit"}
        /\ rFile = NoFile
        /\ pc = "exit" => outcome \in {"Usage", "PathConflict", "NotTxt"}

\* stat, getpwuid or getgrgid fails for an entry with these attributes
AccessFails(m) ==
    \/ ~m.statOK
    \/ ~Getpwuid(m.st_uid).ok
    \/ ~Getgrgid(m.st_gid).ok

\* C7: a run that has walked to an entry whose stat call or owner or group
\* lookup fails has ended at that entry and has not completed: it walks no
\* further and writes neither snapshot line nor report for it.
C7_AccessErrorAborts ==
    \A p \in visited :
        (p \in DOMAIN tree /\ AccessFails(tree[p])) =>
            /\ pc = "exit"
            /\ outcome \notin {"Complete", "Segfault"}
            /\ errPath = p

\* C8: a run whose hash function is neither md5 nor sha1, given on the command
\* line or read from the header of the verification file, walks to no entry of
\* the directory and does not complete.
C8_UnsupportedBeforeWalk ==
    (Entered /\ hashF # md5 /\ hashF # sha1) =>
        /\ visited = {}
        /\ outcome # "Complete"

\* the strings of a finite set in ascending order
RECURSIVE Sorted(_)
Sorted(S) ==
    IF S = {} THEN <<>>
    ELSE LET x == CHOOSE a \in S : \A b \in S \ {a} : StrLess(a, b)
         IN  <<x>> \o Sorted(S \ {x})

\* the concatenation of a sequence of sequences
RECURSIVE Flatten(_)
Flatten(ss) == IF ss = <<>> THEN <<>> ELSE Head(ss) \o Flatten(Tail(ss))

\* the file and the field a warning of a changed file reports
WarningIndex(w) ==
    CHOOSE x \in (1..Len(changedFiles)) \X (1..6) :
        StartsWith(w, changedFiles[x[1]] \o FieldText[x[2]])

\* the warnings of the changed files whose two records hold seven fields each
ExpectedChanged(vDict, dDict, files) ==
    Flatten([i \in 1..Len(files) |->
        LET p == files[i]
            vs == SplitTab(MapGet(vDict, p))
            ds == SplitTab(MapGet(dDict, p))
            K == Differing(vs, ds)
        IN  [j \in 1..Cardinality(K) |->
                p \o FieldText[Nth(K, j)] \o vs[Nth(K, j) + 1] \o <<" ">>
                  \o ds[Nth(K, j) + 1]]])

\* C9: when verify has written its report, each of the three lists is the
\* ascending enumeration of a set of paths that the two dictionaries determine,
\* whatever the order of the lines of the file and of the walk; the warnings are
\* those of the deleted files, then of the new files, then of the changed files
\* in the order of the list, and within one file in the order of the fields;
\* when every record holds seven fields the warnings are determined too.
C9_DeterministicOrder ==
    (pc = "exit" /\ mode = 2 /\ outcome = "Complete") =>
        LET vk == MapKeys(vFileDict)
            dk == MapKeys(dirFileDict)
            nd == Len(deletedFiles)
            nn == Len(newFiles)
            rest == SubSeq(warnings, nd + nn + 1, Len(warnings))
        IN  /\ deletedFiles = Sorted(vk \ dk)
            /\ newFiles = Sorted(dk \ vk)
            /\ changedFiles = Sorted({p \in vk \cap dk :
                                  MapGet(vFileDict, p) # MapGet(dirFileDict, p)})
            /\ Len(warnings) >= nd + nn
            /\ \A i \in 1..nd : warnings[i] = deletedFiles[i] \o isDeleted
            /\ \A i \in 1..nn : warnings[nd + i] = newFiles[i] \o isNew
            /\ \A i \in 1..Len(rest) :
                \E x \in (1..Len(changedFiles)) \X (1..6) :
                    StartsWith(rest[i], changedFiles[x[1]] \o FieldText[x[2]])
            /\ \A i, j \in 1..Len(rest) : i < j =>
                LET a == WarningIndex(rest[i])
                    b == WarningIndex(rest[j])
                IN  a[1] < b[1] \/ (a[1] = b[1] /\ a[2] < b[2])
            /\ (\A p \in SeqSet(changedFiles) :
                    IsRecord(MapGet(vFileDict, p)) /\ IsRecord(MapGet(dirFileDict, p)))
                => rest = ExpectedChanged(vFileDict, dirFileDict, changedFiles)

\* C9 witness: a finished verify that reports two deleted files, in ascending
\* order, from a file that lists the two paths in descending order
C9_Witness ==
    /\ pc = "exit" /\ mode = 2 /\ outcome = "Complete"
    /\ Len(deletedFiles) = 2
    /\ Len(warnings) = 2
    /\ LET dl == DataLines(vDisk.text)
       IN  /\ Len(dl) = 2
           /\ StrLess(KeyOf(dl[2]), KeyOf(dl[1]))
           /\ deletedFiles = <<KeyOf(dl[2]), KeyOf(dl[1])>>

\* C10: when the two dictionaries of a finished comparison hold the same paths
\* with the same records, deletedFiles, newFiles, changedFiles and the
\* warnings are empty.
C10_SelfDiffEmpty ==
    (Compared /\ vFileDict = dirFileDict) =>
        /\ deletedFiles = <<>>
        /\ newFiles = <<>>
        /\ changedFiles = <<>>
        /\ warnings = <<>>

\* C10 witness: a finished verify of equal dictionaries that hold a directory
\* and a file
C10_Witness ==
    /\ pc = "exit" /\ mode = 2 /\ outcome = "Complete"
    /\ vFileDict = dirFileDict
    /\ \E p, q \in MapKeys(vFileDict) :
        /\ SplitTab(MapGet(vFileDict, p))[7] = directory
        /\ SplitTab(MapGet(vFileDict, q))[7] # directory
    /\ changedFiles = <<>> /\ warnings = <<>>

\* the name of the group that owns the entry p
GroupName(p) == Getgrgid(tree[p].st_gid).gr_name

\* the group of the entry p can be read and resolved
GroupKnown(p) ==
    /\ p \in DOMAIN tree
    /\ tree[p].statOK
    /\ Getgrgid(tree[p].st_gid).ok

\* C11: the group field of every record that initialize or verify collects is
\* the name of the group that owns the entry, and a finished verify has put
\* every entry whose baseline record names another group than the one that owns
\* it now in changedFiles, with a warning for the group.
C11_GroupFieldIsGroup ==
    /\ \A i \in 1..Len(snapshot) :
        (GroupKnown(snapshot[i][1]) /\ mode = 1) =>
            snapshot[i][4] = GroupName(snapshot[i][1])
    /\ \A p \in MapKeys(dirFileDict) :
        (GroupKnown(p) /\ IsRecord(MapGet(dirFileDict, p))) =>
            SplitTab(MapGet(dirFileDict, p))[4] = GroupName(p)
    /\ (pc = "exit" /\ mode = 2 /\ outcome = "Complete") =>
        \A p \in MapKeys(vFileDict) \cap MapKeys(dirFileDict) :
            (/\ GroupKnown(p)
             /\ IsRecord(MapGet(vFileDict, p))
             /\ IsRecord(MapGet(dirFileDict, p))
             /\ SplitTab(MapGet(vFileDict, p))[4] # GroupName(p)) =>
                /\ p \in SeqSet(changedFiles)
                /\ \E w \in SeqSet(warnings) : StartsWith(w, p \o FieldText[3])

\* verify runs on the file a completed initialize wrote, the tree is the tree
\* that initialize walked and no path of it holds a tab
Unchanged ==
    /\ mode = 2
    /\ lastInit.done
    /\ lastInit.tree = tree
    /\ \A p \in DOMAIN tree : TAB \notin SeqSet(p)

====
